---- MODULE Spec2Model ----
(***************************************************************************)
(* A model of rxjs-sqs-consumer: the Manager class (src/src/Manager.ts),   *)
(* a receive loop with per-message visibility heartbeat and single delete, *)
(* and the SQSManager class (src/src/SQSManager.ts), an rxjs pipeline with *)
(* retry and batched delete.                                               *)
(*                                                                         *)
(* One step of the model is one run-to-completion turn of the JavaScript   *)
(* event loop: the continuation of a resolved transport call, handler      *)
(* promise or timer, or one call of the public interface, together with    *)
(* every promise continuation it triggers synchronously.                   *)
(***************************************************************************)
EXTENDS Integers, Sequences, FiniteSets, TLC

\* ---------------------------------------------------------------- bounds
\* start() calls that launch a loop task
MaxStarts == 2
\* messages delivered by the transport over a run
MaxMsgs == 2
\* extend-lease calls outstanding at once
MaxExtOut == 2
\* the same two, for the runs in which start() and stop() race (Spec)
RaceMsgs == 1
RaceExtOut == 1

\* messages delivered to the SQSManager pipeline over a run
SqsMsgs == 3
\* the same, for the runs that fill the delete buffer (SpecFlood)
FloodMsgs == 11
\* largest concurrency and maxRetries passed to processMessage
MaxConcurrency == 2
MaxRetries == 2
\* largest baseDelay passed to processMessage
MaxBaseDelay == 2
\* batch-delete calls outstanding at once when the flush timer fires
MaxFlushOut == 2
\* the same, for the runs that fill the delete buffer
FloodFlushOut == 1

\* largest VisibilityTimeout and heartbeatInterval options given to the
\* Manager constructor
MaxVisibility == 8
MaxHeartbeat == 4

\* ------------------------------------------------------ program constants
\* heartbeat interval when neither option is given
DefaultHeartbeat == 15
\* entries per batch-delete call and size that triggers a flush
DeleteBatchMax == 10
\* MaxNumberOfMessages of the receive call
ReceiveMax == 10

Loops == 1..MaxStarts
Msgs == 1..MaxMsgs
SMsgs == 1..FloodMsgs

\* ------------------------------------------------ transport error values
\* The errors a receive call may fail with: the value of error.Code and of
\* error.__type ("": the field is absent), and the category the error belongs
\* to: the queue does not exist or the credentials are invalid (Configuration),
\* or anything else (Temporary).
Errors ==
    {[Code |-> "AWS.SimpleQueueService.NonExistentQueue", type |-> "",
      category |-> "Configuration"],
     [Code |-> "", type |-> "com.amazonaws.sqs#QueueDoesNotExist",
      category |-> "Configuration"],
     [Code |-> "InvalidClientTokenId", type |-> "",
      category |-> "Configuration"],
     [Code |-> "", type |-> "com.amazon.coral.service#UnrecognizedClientException",
      category |-> "Configuration"],
     [Code |-> "RequestThrottled", type |-> "com.amazonaws.sqs#RequestThrottled",
      category |-> "Temporary"]}

\* ------------------------------------------------------------- variables
VARIABLES
    running,        \* Manager.running
    gen,            \* identity of Manager.shutdownPromise / resolveShutdown (0: null)
    resolved,       \* whether the current shutdownPromise has been resolved
    loopPc,         \* per loop() task: where it is suspended
    loopAwait,      \* per loop() task in its own stop(): the promise it awaits
    batchN,         \* per loop() task: messages.length of its current batch
    msgs,           \* per delivered message: its processor's state and call counts
    stopCalls,      \* the user's stop() calls still awaiting their promise
    stopDone,       \* the user's stop() calls whose promise the last step resolved
    lastRecv,       \* what the last step did if it handled a receive failure
    lastSettle,     \* the processor record the last step settled with, if it settled one
    cfgHalt,        \* a Configuration error was handled and start() not called since
    recvAfterHalt,  \* a receive call was issued while cfgHalt
    options,        \* the VisibilityTimeout and heartbeatInterval given to the constructor
    heartbeatInterval, \* Manager.heartbeatInterval
    isListening,    \* SQSManager.isListening
    deleteBuffer,   \* SQSManager.deleteBuffer: the message ids, in order
    deleteInterval, \* whether the flush interval of the constructor is armed
    sub,            \* the subscription to processMessage's observable
    pollPc,         \* where the poll() task of listen is suspended
    concurrency,    \* processMessage's argument
    maxRetries,     \* processMessage's argument
    baseDelay,      \* processMessage's argument
    smsgs,          \* per message delivered to the pipeline: its inner observable
    mergeQ,         \* the messages mergeMap holds back, in order
    flushes,        \* the batches of the batch-delete calls outstanding
    deleted,        \* the ids whose batch-delete call resolved
    ev              \* what the last step did to a message of the pipeline

rvars == <<running, gen, resolved, loopPc, loopAwait, batchN, msgs, stopCalls,
           stopDone, lastRecv, lastSettle, cfgHalt, recvAfterHalt>>

mvars == <<rvars, options, heartbeatInterval>>

svars == <<isListening, deleteBuffer, deleteInterval, sub, pollPc, concurrency,
           maxRetries, baseDelay, smsgs, mergeQ, flushes, deleted, ev>>

vars == <<mvars, svars>>

\* ------------------------------------------------------- Manager: helpers
NoMsg ==
    [pc |-> "none", owner |-> 0, handle |-> FALSE, timer |-> FALSE, hres |-> "none",
     extOut |-> 0, visErr |-> 0,
     handlerCalls |-> 0, deleteCalls |-> 0, procErr |-> 0]

\* lastRecv when the last step handled no receive failure. Otherwise it holds
\* the category of the error the transport raised, the loop that caught it, whether the engine was running, and how often the step invoked
\* each receive-path callback and started the temporary-error delay.
Quiet ==
    [fail |-> "none", loop |-> 0, wasRunning |-> FALSE, recvErr |-> 0, cfg |-> 0,
     tmp |-> 0, delay |-> 0]

\* The loops with a receive cycle in progress: a receive call outstanding, or
\* the processors of its batch not all settled.
InCycle == {l \in Loops : loopPc[l] \in {"recv", "batch"}}

\* A classification that forgets the invalid-credentials errors.
IsConfigurationErrorQueueOnly(e) ==
    \/ e.Code = "AWS.SimpleQueueService.NonExistentQueue"
    \/ e.type = "com.amazonaws.sqs#QueueDoesNotExist"

\* Manager.receiveMessage, lines 87-95: the Configuration category.
IsConfigurationError(e) ==
    LET isQueueNonExistent ==
            \/ e.Code = "AWS.SimpleQueueService.NonExistentQueue"
            \/ e.type = "com.amazonaws.sqs#QueueDoesNotExist"
        isInvalidCredentials ==
            \/ e.Code = "InvalidClientTokenId"
            \/ e.type = "com.amazon.coral.service#UnrecognizedClientException"
    IN  isQueueNonExistent \/ isInvalidCredentials

\* The processor records to be seen in a state: those of the messages not yet
\* dropped, and the one the last step settled with (it is dropped in the same
\* step when it was the last of its batch).
Records == {msgs[m] : m \in Msgs} \cup {lastSettle}

\* Messages delivered so far; slots are handed out in index order.
Delivered == Cardinality({m \in Msgs : msgs[m].pc # "none"})

\* Promise.allSettled(proccessingPromises), line 83: every processor of the
\* loop's current batch has settled.
BatchSettled(l, ms) == \A m \in Msgs : ms[m].owner = l => ms[m].pc = "settled"

\* A delivered message that nothing can happen to any more.
Gone == [NoMsg EXCEPT !.pc = "gone"]

\* receiveMessage returns: its batch is dropped. A message leaves the model
\* unless an extend-lease call of it is still outstanding.
ReleaseBatch(l, ms) ==
    [m \in Msgs |->
        IF ms[m].owner # l THEN ms[m]
        ELSE IF ms[m].extOut = 0 THEN Gone
        ELSE [ms[m] EXCEPT !.owner = 0]]

\* A pending stop() call is [p: the promise it awaits, cycles: the loops whose
\* receive cycle was in progress when it was called and has not ended since].
\* The cycle of loop l has ended:
EndCycle(l, sc) == {[r EXCEPT !.cycles = @ \ {l}] : r \in sc}

\* resolveShutdown() of promise p: the stop() calls awaiting p resume.
ResolvedBy(p, sc) == {r \in sc : r.p = p}

\* stopDone when the last step resolved no stop() call. Otherwise n counts the
\* calls it resolved and left holds the receive cycles those calls were made
\* in and that were still in progress when they resolved.
NoStop == [n |-> 0, left |-> {}]

StopsDone(rs) == [n |-> Cardinality(rs), left |-> UNION {r.cycles : r \in rs}]

\* Manager.stop, lines 51-58: the promise the call awaits (0: it returns at once).
StopAwaits == IF ~running THEN 0 ELSE gen

\* Manager.loop, lines 61-65, entered with this.running = run: either the next
\* receive call is issued, or the loop ends and resolves the current shutdown
\* promise, which resumes every task awaiting it (a loop suspended in its own
\* stop() then finds running false and ends too).
LoopTop(l, run) ==
    IF run
    THEN /\ loopPc' = [loopPc EXCEPT ![l] = "recv"]
         /\ resolved' = resolved
         /\ stopCalls' = EndCycle(l, stopCalls)
         /\ stopDone' = NoStop
         /\ recvAfterHalt' = (recvAfterHalt \/ cfgHalt)
    ELSE /\ loopPc' = [k \in Loops |->
                        IF k = l \/ (loopPc[k] = "stopwait" /\ loopAwait[k] = gen)
                        THEN "done" ELSE loopPc[k]]
         /\ resolved' = TRUE
         /\ stopCalls' = EndCycle(l, stopCalls) \ ResolvedBy(gen, EndCycle(l, stopCalls))
         /\ stopDone' = StopsDone(ResolvedBy(gen, EndCycle(l, stopCalls)))
         /\ recvAfterHalt' = recvAfterHalt

\* Manager.processMessageWithVisibilityHeartbeat, lines 110-136, up to its
\* first await: a message without ReceiptHandle settles at once; otherwise the
\* heartbeat interval is set and the handler is called.
StartProcessor(l, h) ==
    IF ~h
    THEN [NoMsg EXCEPT !.pc = "settled", !.owner = l]
    ELSE [NoMsg EXCEPT !.pc = "handler", !.owner = l, !.handle = TRUE, !.timer = TRUE,
                       !.hres = "pending", !.handlerCalls = 1]

\* messages.map(...), line 81: one processor per message of the batch.
Dispatch(l, hs) ==
    [m \in Msgs |->
        IF m > Delivered /\ m <= Delivered + Len(hs)
        THEN StartProcessor(l, hs[m - Delivered])
        ELSE msgs[m]]

\* A finally block that leaves the heartbeat interval armed.
FinallyKeepTimer(r) == [r EXCEPT !.pc = "settled"]

\* lines 141-146: the finally block clears the heartbeat interval.
Finally(r) == [r EXCEPT !.timer = FALSE, !.pc = "settled"]

\* line 136 resolved, line 138: the delete call is issued.
OnHandlerResolved(r) == [r EXCEPT !.hres = "ok", !.deleteCalls = @ + 1, !.pc = "delete"]

\* A catch block that also deletes the message whose handler failed.
OnHandlerRejectedAck(r) ==
    Finally([r EXCEPT !.hres = "fail", !.procErr = @ + 1, !.deleteCalls = @ + 1])

\* line 136 rejected, lines 139-140: the processing-error callback.
OnHandlerRejected(r) == Finally([r EXCEPT !.hres = "fail", !.procErr = @ + 1])

\* line 138 resolved.
OnDeleteResolved(r) == Finally(r)

\* line 138 rejected: the same catch block, lines 139-140.
OnDeleteRejected(r) == Finally([r EXCEPT !.procErr = @ + 1])

\* line 134: a tick of the interval calls extendVisibility, lines 114-125.
OnTick(r) == [r EXCEPT !.extOut = @ + 1]

\* line 125 resolved.
OnExtendResolved(r) == [r EXCEPT !.extOut = @ - 1]

\* line 125 rejected, lines 126-129: clear the interval, visibility-error callback.
OnExtendRejected(r) == [r EXCEPT !.extOut = @ - 1, !.timer = FALSE, !.visErr = @ + 1]

\* ------------------------------------------------------- Manager: actions
\* An option that is not given, and the test JavaScript's || makes of an
\* option: undefined and 0 are falsy.
Undefined == 0 - 1
Falsy(x) == x = Undefined \/ x = 0

\* No option given.
NoOptions == [VisibilityTimeout |-> Undefined, heartbeatInterval |-> Undefined]

\* The options the constructor may be given.
OptionValues ==
    [VisibilityTimeout : {Undefined} \cup 0..MaxVisibility,
     heartbeatInterval : {Undefined} \cup 0..MaxHeartbeat]

\* Manager.constructor, line 30: the effective heartbeat interval, in seconds.
\* Math.floor(v / 2) of a non-negative integer v is v \div 2.
HeartbeatInterval(o) ==
    IF ~Falsy(o.heartbeatInterval)
    THEN o.heartbeatInterval
    ELSE IF ~Falsy(o.VisibilityTimeout)
         THEN o.VisibilityTimeout \div 2
         ELSE DefaultHeartbeat

\* The field initialisers, lines 19-21.
InitFields ==
    /\ running = FALSE
    /\ gen = 0
    /\ resolved = FALSE
    /\ loopPc = [l \in Loops |-> "none"]
    /\ loopAwait = [l \in Loops |-> 0]
    /\ batchN = [l \in Loops |-> 0]
    /\ msgs = [m \in Msgs |-> NoMsg]
    /\ stopCalls = {}
    /\ stopDone = NoStop
    /\ lastRecv = Quiet
    /\ lastSettle = NoMsg
    /\ cfgHalt = FALSE
    /\ recvAfterHalt = FALSE

\* The state after the constructor was given no option, lines 19-42.
InitManager ==
    /\ InitFields
    /\ options = NoOptions
    /\ heartbeatInterval = HeartbeatInterval(NoOptions)

\* The constructor given any options, before it has run; and its run.
InitConstruct ==
    /\ InitFields
    /\ options \in OptionValues
    /\ heartbeatInterval = Undefined

Construct ==
    /\ heartbeatInterval = Undefined
    /\ heartbeatInterval' = HeartbeatInterval(options)
    /\ UNCHANGED <<rvars, options, svars>>

\* Manager.start, lines 44-49. loop() runs synchronously up to the receive
\* call of its first cycle. The shutdown promise is replaced: a stop() call
\* awaiting the old one can no longer resolve, and what it waited for is
\* forgotten.
Start ==
    /\ running \/ gen < MaxStarts
    /\ IF running
       THEN UNCHANGED <<running, gen, resolved, loopPc, loopAwait, batchN, msgs,
                        stopCalls, cfgHalt, recvAfterHalt>>
       ELSE /\ running' = TRUE
            /\ gen' = gen + 1
            /\ loopPc' = [loopPc EXCEPT ![gen + 1] = "recv"]
            /\ cfgHalt' = FALSE
            /\ resolved' = FALSE
            /\ stopCalls' = {[r EXCEPT !.cycles = {}] : r \in stopCalls}
            /\ UNCHANGED <<loopAwait, batchN, msgs, recvAfterHalt>>
    /\ lastRecv' = Quiet
    /\ lastSettle' = NoMsg
    /\ stopDone' = NoStop
    /\ UNCHANGED <<svars, options, heartbeatInterval>>

\* Manager.stop called by the user, lines 51-58.
Stop ==
    /\ running' = FALSE
    /\ lastRecv' = Quiet
    /\ lastSettle' = NoMsg
    /\ IF StopAwaits = 0 \/ resolved
       THEN /\ stopDone' = [n |-> 1, left |-> InCycle]
            /\ stopCalls' = stopCalls
       ELSE /\ stopDone' = NoStop
            /\ stopCalls' = stopCalls \cup {[p |-> StopAwaits, cycles |-> InCycle]}
    /\ UNCHANGED <<gen, resolved, loopPc, loopAwait, batchN, msgs, cfgHalt,
                   recvAfterHalt>>
    /\ UNCHANGED <<svars, options, heartbeatInterval>>

\* The receive call of loop l resolves with a batch; hs[i] tells whether the
\* i-th message carries a ReceiptHandle. Lines 77-83.
RecvOk(l, hs) ==
    /\ loopPc[l] = "recv"
    /\ Len(hs) <= MaxMsgs - Delivered
    /\ IF BatchSettled(l, Dispatch(l, hs))
       THEN /\ msgs' = ReleaseBatch(l, Dispatch(l, hs))
            /\ batchN' = batchN
            /\ LoopTop(l, running)
       ELSE /\ msgs' = Dispatch(l, hs)
            /\ batchN' = [batchN EXCEPT ![l] = Len(hs)]
            /\ loopPc' = [loopPc EXCEPT ![l] = "batch"]
            /\ stopDone' = NoStop
            /\ UNCHANGED <<resolved, stopCalls, recvAfterHalt>>
    /\ lastRecv' = Quiet
    /\ lastSettle' = NoMsg
    /\ UNCHANGED <<running, gen, loopAwait, cfgHalt>>
    /\ UNCHANGED <<svars, options, heartbeatInterval>>

\* The receive call of loop l rejects with a Configuration error, lines 84-99:
\* both callbacks, then the loop awaits its own stop().
RecvFailConfiguration(l, e) ==
    /\ lastRecv' = [Quiet EXCEPT !.fail = e.category, !.loop = l, !.wasRunning = running,
                                 !.recvErr = 1, !.cfg = 1]
    /\ cfgHalt' = TRUE
    /\ running' = FALSE
    /\ IF StopAwaits = 0 \/ resolved
       THEN /\ LoopTop(l, FALSE)
            /\ UNCHANGED loopAwait
       ELSE /\ loopPc' = [loopPc EXCEPT ![l] = "stopwait"]
            /\ loopAwait' = [loopAwait EXCEPT ![l] = StopAwaits]
            /\ stopCalls' = EndCycle(l, stopCalls)
            /\ stopDone' = NoStop
            /\ UNCHANGED <<resolved, recvAfterHalt>>

\* A catch block that invokes the temporary-error callback and returns without
\* waiting.
RecvFailOtherNoDelay(l, e) ==
    /\ UNCHANGED <<running, loopAwait, cfgHalt>>
    /\ lastRecv' = [Quiet EXCEPT !.fail = e.category, !.loop = l,
                                 !.wasRunning = running, !.recvErr = 1,
                                 !.tmp = IF running THEN 1 ELSE 0]
    /\ LoopTop(l, running)

\* The receive call of loop l rejects with any other error, lines 84-94 and
\* 101-104: the temporary-error callback and the delay only while running.
RecvFailOther(l, e) ==
    /\ UNCHANGED <<running, loopAwait, cfgHalt>>
    /\ IF running
       THEN /\ lastRecv' = [Quiet EXCEPT !.fail = e.category, !.loop = l, !.wasRunning = TRUE,
                                         !.recvErr = 1, !.tmp = 1, !.delay = 1]
            /\ loopPc' = [loopPc EXCEPT ![l] = "delay"]
            /\ stopCalls' = EndCycle(l, stopCalls)
            /\ stopDone' = NoStop
            /\ UNCHANGED <<resolved, recvAfterHalt>>
       ELSE /\ lastRecv' = [Quiet EXCEPT !.fail = e.category, !.loop = l, !.recvErr = 1]
            /\ LoopTop(l, FALSE)

\* The receive call of loop l rejects with error e.
RecvFail(l, e) ==
    /\ loopPc[l] = "recv"
    /\ IF IsConfigurationError(e)
       THEN RecvFailConfiguration(l, e)
       ELSE RecvFailOther(l, e)
    /\ lastSettle' = NoMsg
    /\ UNCHANGED <<gen, batchN, msgs>>
    /\ UNCHANGED <<svars, options, heartbeatInterval>>

\* The setTimeout of line 103 fires: receiveMessage returns.
DelayElapsed(l) ==
    /\ loopPc[l] = "delay"
    /\ LoopTop(l, running)
    /\ lastRecv' = Quiet
    /\ lastSettle' = NoMsg
    /\ UNCHANGED <<running, gen, loopAwait, batchN, msgs, cfgHalt>>
    /\ UNCHANGED <<svars, options, heartbeatInterval>>

\* The processor of message m moves on to record r. When that settles the last
\* processor of its loop's batch, the same turn resolves allSettled, line 83,
\* returns from receiveMessage and runs the loop on, lines 61-65: the batch is
\* dropped and the next receive call is issued, or the loop ends.
MsgStep(m, r) ==
    LET ms == [msgs EXCEPT ![m] = r]
        l == msgs[m].owner
    IN  /\ IF l \in Loops /\ BatchSettled(l, ms)
           THEN /\ msgs' = ReleaseBatch(l, ms)
                /\ batchN' = [batchN EXCEPT ![l] = 0]
                /\ LoopTop(l, running)
           ELSE /\ msgs' = ms
                /\ stopDone' = NoStop
                /\ UNCHANGED <<resolved, loopPc, batchN, stopCalls, recvAfterHalt>>
        /\ lastSettle' = IF r.pc = "settled" /\ msgs[m].pc # "settled" THEN r ELSE NoMsg
        /\ lastRecv' = Quiet
        /\ UNCHANGED <<running, gen, loopAwait, cfgHalt>>
        /\ UNCHANGED <<svars, options, heartbeatInterval>>

\* The extend-lease calls of messages 1..n that are outstanding.
RECURSIVE ExtOut(_)
ExtOut(n) == IF n = 0 THEN 0 ELSE msgs[n].extOut + ExtOut(n - 1)

\* The heartbeat interval of message m fires.
Tick(m) ==
    /\ msgs[m].timer
    /\ MsgStep(m, OnTick(msgs[m]))

\* An extend-lease call of message m resolves.
ExtendOk(m) ==
    /\ msgs[m].extOut > 0
    /\ MsgStep(m, OnExtendResolved(msgs[m]))

\* An extend-lease call of message m rejects.
ExtendFail(m) ==
    /\ msgs[m].extOut > 0
    /\ MsgStep(m, OnExtendRejected(msgs[m]))

\* The handler promise of message m resolves.
HandlerOk(m) ==
    /\ msgs[m].pc = "handler"
    /\ MsgStep(m, OnHandlerResolved(msgs[m]))

\* The handler promise of message m rejects.
HandlerFail(m) ==
    /\ msgs[m].pc = "handler"
    /\ MsgStep(m, OnHandlerRejected(msgs[m]))

\* The delete call of message m resolves.
DeleteOk(m) ==
    /\ msgs[m].pc = "delete"
    /\ MsgStep(m, OnDeleteResolved(msgs[m]))

\* The delete call of message m rejects.
DeleteFail(m) ==
    /\ msgs[m].pc = "delete"
    /\ MsgStep(m, OnDeleteRejected(msgs[m]))

\* The batches of at most n messages a receive call may return.
Batches(n) == UNION {[1..k -> BOOLEAN] : k \in 0..n}

\* What the transport, the handler and the timers do, with at most maxMsgs
\* messages delivered and at most maxExt extend-lease calls outstanding.
Environment(maxMsgs, maxExt) ==
    \/ \E l \in Loops, hs \in Batches(maxMsgs - Delivered) : RecvOk(l, hs)
    \/ \E l \in Loops, e \in Errors : RecvFail(l, e)
    \/ \E l \in Loops : DelayElapsed(l)
    \/ \E m \in Msgs : ExtOut(MaxMsgs) < maxExt /\ Tick(m)
    \/ \E m \in Msgs : ExtendOk(m)
    \/ \E m \in Msgs : ExtendFail(m)
    \/ \E m \in Msgs : HandlerOk(m)
    \/ \E m \in Msgs : HandlerFail(m)
    \/ \E m \in Msgs : DeleteOk(m)
    \/ \E m \in Msgs : DeleteFail(m)

\* ------------------------------------------------- SQSManager: operators
\* What a received message carries: both MessageId and ReceiptHandle, no
\* ReceiptHandle, or no MessageId.
Kinds == {"full", "nohandle", "noid"}

\* The record of a message not delivered yet.
NoSMsg == [pc |-> "none", kind |-> "full", timer |-> FALSE, retryCount |-> 0,
           handlerCalls |-> 0]

\* The record of a message whose inner observable has ended.
SGone == [NoSMsg EXCEPT !.pc = "gone"]

\* A step that does nothing to a message.
NoEvent == [kind |-> "none", m |-> 0, outcome |-> "none", handlerCalls |-> 0,
            retries |-> 0, handed |-> 0, delay |-> 0]

\* The exponential backoff of line 146 for retry's retryCount, which counts
\* the retries from 1.
Backoff(retryCount) == baseDelay * 2^retryCount

\* Math.floor(Math.random() * backoff), line 147, with Math.random() any value
\* of [0, 1): every integer below backoff.
Jitter(backoff) == 0..(backoff - 1)

Min(a, b) == IF a < b THEN a ELSE b

\* Array.splice(0, n): the elements removed, and the elements left.
Take(q, n) == SubSeq(q, 1, Min(Len(q), n))
Drop(q, n) == IF Len(q) <= n THEN <<>> ELSE SubSeq(q, n + 1, Len(q))

\* The delete buffer and the batch-delete calls outstanding.
Batcher == [buf |-> deleteBuffer, out |-> flushes]

\* SQSManager.flushBatchDelete up to its await, lines 91-103.
FlushBatchDelete(b) ==
    IF Len(b.buf) = 0
    THEN b
    ELSE [buf |-> Drop(b.buf, DeleteBatchMax),
          out |-> b.out \cup {Take(b.buf, DeleteBatchMax)}]

\* SQSManager.addToDeleteBatch up to its await, lines 74-86.
AddToDeleteBatch(b, m, kind) ==
    IF kind # "full"
    THEN b
    ELSE LET pushed == [b EXCEPT !.buf = Append(@, m)]
         IN  IF Len(pushed.buf) >= DeleteBatchMax
             THEN FlushBatchDelete(pushed)
             ELSE pushed

\* The teardown of listen, lines 61-67, applied to the batcher.
Teardown(b) == FlushBatchDelete(b)

\* The messages delivered so far, and the ids of the next n.
SDelivered == Cardinality({m \in SMsgs : smsgs[m].pc # "none"})
NewIds(n) == [i \in 1..n |-> SDelivered + i]

\* The inner observables mergeMap is subscribed to.
Active(ms) == Cardinality({m \in SMsgs : ms[m].pc \in {"handler", "retry"}})

\* The subscription of an inner observable, lines 133-163: the visibility
\* extender is started (line 176: only with a ReceiptHandle) and the handler is
\* invoked.
StartInner(r) ==
    [r EXCEPT !.pc = "handler", !.timer = (r.kind # "nohandle"),
              !.handlerCalls = @ + 1]

\* The batch ks as received: the records of its messages.
Received(ks) ==
    [m \in SMsgs |->
        IF m > SDelivered /\ m <= SDelivered + Len(ks)
        THEN [NoSMsg EXCEPT !.pc = "queued", !.kind = ks[m - SDelivered]]
        ELSE smsgs[m]]

\* mergeMap on the values ids of its source: subscribe while fewer than
\* concurrency inner observables are active, hold back otherwise.
RECURSIVE MergeNext(_, _)
MergeNext(st, ids) ==
    IF ids = <<>>
    THEN st
    ELSE MergeNext(IF Active(st.ms) < concurrency
                   THEN [st EXCEPT !.ms[Head(ids)] = StartInner(@)]
                   ELSE [st EXCEPT !.q = Append(@, Head(ids))],
                   Tail(ids))

\* mergeMap after an inner observable completed: subscribe to the values held
\* back while there is room.
RECURSIVE MergeDrain(_)
MergeDrain(st) ==
    IF st.q # <<>> /\ Active(st.ms) < concurrency
    THEN MergeDrain([ms |-> [st.ms EXCEPT ![Head(st.q)] = StartInner(@)],
                     q |-> Tail(st.q)])
    ELSE st

\* The terminal outcome of message m, as the step that reaches it sees it:
\* finalize (lines 151-157) hands the message to addToDeleteBatch once.
Terminal(m, outcome) ==
    [kind |-> "terminal", m |-> m, outcome |-> outcome,
     handlerCalls |-> smsgs[m].handlerCalls, retries |-> smsgs[m].retryCount,
     handed |-> 1, delay |-> 0]

\* --------------------------------------------------- SQSManager: actions
\* The state after the constructor, lines 12-25.
InitSQSManager ==
    /\ isListening = FALSE
    /\ deleteBuffer = <<>>
    /\ deleteInterval = TRUE
    /\ sub = "none"
    /\ pollPc = "idle"
    /\ concurrency = 0
    /\ maxRetries = 0
    /\ baseDelay = 0
    /\ smsgs = [m \in SMsgs |-> NoSMsg]
    /\ mergeQ = <<>>
    /\ flushes = {}
    /\ deleted = {}
    /\ ev = NoEvent

\* processMessage(handler, c, r, bd).subscribe(): mergeMap subscribes to listen,
\* lines 31-59, and poll() runs up to its first receive call.
Subscribe(c, r, bd) ==
    /\ sub = "none"
    /\ sub' = "open"
    /\ concurrency' = c
    /\ maxRetries' = r
    /\ baseDelay' = bd
    /\ isListening' = TRUE
    /\ pollPc' = "recv"
    /\ ev' = NoEvent
    /\ UNCHANGED <<deleteBuffer, deleteInterval, smsgs, mergeQ, flushes, deleted>>
    /\ UNCHANGED mvars

\* The subscriber unsubscribes: the teardown of listen, lines 61-67.
Unsubscribe ==
    /\ sub = "open"
    /\ sub' = "unsub"
    /\ isListening' = FALSE
    /\ deleteInterval' = FALSE
    /\ deleteBuffer' = Teardown(Batcher).buf
    /\ flushes' = Teardown(Batcher).out
    /\ ev' = NoEvent
    /\ UNCHANGED <<pollPc, concurrency, maxRetries, baseDelay, smsgs, mergeQ, deleted>>
    /\ UNCHANGED mvars

\* The receive call of poll() resolves with the batch ks, lines 44-50 and the
\* loop test of line 35. A closed subscriber is not given the messages.
SQSRecvOk(ks) ==
    /\ pollPc = "recv"
    /\ IF sub = "open"
       THEN LET st == MergeNext([ms |-> Received(ks), q |-> mergeQ], NewIds(Len(ks)))
            IN  /\ smsgs' = st.ms
                /\ mergeQ' = st.q
       ELSE UNCHANGED <<smsgs, mergeQ>>
    /\ pollPc' = IF isListening /\ sub = "open" THEN "recv" ELSE "done"
    /\ ev' = NoEvent
    /\ UNCHANGED <<isListening, deleteBuffer, deleteInterval, sub, concurrency,
                   maxRetries, baseDelay, flushes, deleted>>
    /\ UNCHANGED mvars

\* The receive call of poll() rejects, lines 51-55: the error goes through
\* mergeMap to the subscriber, which tears listen down (lines 61-67).
SQSRecvFail ==
    /\ pollPc = "recv"
    /\ pollPc' = "done"
    /\ isListening' = FALSE
    /\ IF sub = "open"
       THEN /\ sub' = "error"
            /\ deleteInterval' = FALSE
            /\ deleteBuffer' = Teardown(Batcher).buf
            /\ flushes' = Teardown(Batcher).out
       ELSE UNCHANGED <<sub, deleteInterval, deleteBuffer, flushes>>
    /\ ev' = NoEvent
    /\ UNCHANGED <<concurrency, maxRetries, baseDelay, smsgs, mergeQ, deleted>>
    /\ UNCHANGED mvars

\* The handler promise of message m resolves: the inner observable completes,
\* mergeMap subscribes to what it held back, and finalize (lines 151-157)
\* stops the extender and hands the message to the batcher.
SQSHandlerOk(m) ==
    /\ smsgs[m].pc = "handler"
    /\ LET ended == [ms |-> [smsgs EXCEPT ![m] = SGone], q |-> mergeQ]
           st == IF sub = "open" THEN MergeDrain(ended) ELSE ended
           b == AddToDeleteBatch(Batcher, m, smsgs[m].kind)
       IN  /\ smsgs' = st.ms
           /\ mergeQ' = st.q
           /\ deleteBuffer' = b.buf
           /\ flushes' = b.out
    /\ ev' = Terminal(m, "ok")
    /\ UNCHANGED <<isListening, deleteInterval, sub, pollPc, concurrency,
                   maxRetries, baseDelay, deleted>>
    /\ UNCHANGED mvars

\* retry has used its count, lines 143-150: the error goes through mergeMap to
\* the subscriber, which tears listen down; then finalize runs.
Exhausted(m) ==
    /\ LET b == AddToDeleteBatch(IF sub = "open" THEN Teardown(Batcher) ELSE Batcher,
                                 m, smsgs[m].kind)
       IN  /\ deleteBuffer' = b.buf
           /\ flushes' = b.out
    /\ sub' = IF sub = "open" THEN "error" ELSE sub
    /\ isListening' = IF sub = "open" THEN FALSE ELSE isListening
    /\ deleteInterval' = IF sub = "open" THEN FALSE ELSE deleteInterval
    /\ smsgs' = [smsgs EXCEPT ![m] = SGone]
    /\ ev' = Terminal(m, "exhausted")
    /\ UNCHANGED <<pollPc, concurrency, maxRetries, baseDelay, mergeQ, deleted>>

\* from(handler(message)) delivers the rejection of the handler promise to
\* retry, lines 141-150: retry waits timer(jitter) and subscribes again to the
\* same promise while it has retries left.
OnInnerError(m) ==
    IF smsgs[m].retryCount < maxRetries
    THEN /\ smsgs' = [smsgs EXCEPT ![m].pc = "retry", ![m].retryCount = @ + 1]
         /\ \E d \in Jitter(Backoff(smsgs[m].retryCount + 1)) :
              ev' = [NoEvent EXCEPT !.kind = "retry", !.m = m,
                                    !.retries = smsgs[m].retryCount + 1,
                                    !.handlerCalls = smsgs[m].handlerCalls,
                                    !.delay = d]
         /\ UNCHANGED <<isListening, deleteBuffer, deleteInterval, sub, pollPc,
                        concurrency, maxRetries, baseDelay, mergeQ, flushes, deleted>>
    ELSE Exhausted(m)

\* The handler promise of message m rejects.
SQSHandlerFail(m) ==
    /\ smsgs[m].pc = "handler"
    /\ OnInnerError(m)
    /\ UNCHANGED mvars

\* The retry timer of message m fires: retry subscribes again to
\* from(promise), which delivers the same rejection.
SQSRetryTimer(m) ==
    /\ smsgs[m].pc = "retry"
    /\ OnInnerError(m)
    /\ UNCHANGED mvars

\* The visibility extender of message m fires, lines 178-191: an extend call
\* is issued; its outcome is only logged.
SQSTick(m) ==
    /\ smsgs[m].timer
    /\ ev' = [NoEvent EXCEPT !.kind = "tick", !.m = m]
    /\ UNCHANGED <<isListening, deleteBuffer, deleteInterval, sub, pollPc,
                   concurrency, maxRetries, baseDelay, smsgs, mergeQ, flushes, deleted>>
    /\ UNCHANGED mvars

\* The flush interval of the constructor fires, line 24.
FlushTimer ==
    /\ deleteInterval
    /\ deleteBuffer' = FlushBatchDelete(Batcher).buf
    /\ flushes' = FlushBatchDelete(Batcher).out
    /\ ev' = NoEvent
    /\ UNCHANGED <<isListening, deleteInterval, sub, pollPc, concurrency,
                   maxRetries, baseDelay, smsgs, mergeQ, deleted>>
    /\ UNCHANGED mvars

\* The batch-delete call of batch b resolves, lines 98-103.
FlushOk(b) ==
    /\ b \in flushes
    /\ flushes' = flushes \ {b}
    /\ deleted' = deleted \cup {b[i] : i \in 1..Len(b)}
    /\ ev' = NoEvent
    /\ UNCHANGED <<isListening, deleteBuffer, deleteInterval, sub, pollPc,
                   concurrency, maxRetries, baseDelay, smsgs, mergeQ>>
    /\ UNCHANGED mvars

\* A catch block that puts the failed batch back at the end of the buffer.
FlushFailAppend(b) ==
    /\ b \in flushes
    /\ flushes' = flushes \ {b}
    /\ deleteBuffer' = deleteBuffer \o b
    /\ ev' = [NoEvent EXCEPT !.kind = "flushfail"]
    /\ UNCHANGED <<isListening, deleteInterval, sub, pollPc, concurrency,
                   maxRetries, baseDelay, smsgs, mergeQ, deleted>>
    /\ UNCHANGED mvars

\* The batch-delete call of batch b rejects, lines 104-109.
FlushFail(b) ==
    /\ b \in flushes
    /\ flushes' = flushes \ {b}
    /\ deleteBuffer' = b \o deleteBuffer
    /\ ev' = [NoEvent EXCEPT !.kind = "flushfail"]
    /\ UNCHANGED <<isListening, deleteInterval, sub, pollPc, concurrency,
                   maxRetries, baseDelay, smsgs, mergeQ, deleted>>
    /\ UNCHANGED mvars

\* The batches of at most n messages, of the given kinds, a receive call may
\* return.
KindSeqs(kinds, n) == UNION {[1..k -> kinds] : k \in 0..n}

\* The subscriber, the transport, the handler and the timers of SQSManager,
\* with at most maxMsgs messages delivered, each of one of kinds, concurrency in
\* concs, maxRetries in retries, baseDelay in bases, and at most maxFlush batch-delete calls
\* outstanding when the flush interval fires.
SQSEnvironment(maxMsgs, kinds, concs, retries, bases, maxFlush) ==
    \/ \E c \in concs, r \in retries, bd \in bases : Subscribe(c, r, bd)
    \/ Unsubscribe
    \/ \E ks \in KindSeqs(kinds, Min(ReceiveMax, maxMsgs - SDelivered)) : SQSRecvOk(ks)
    \/ SQSRecvFail
    \/ \E m \in SMsgs : SQSHandlerOk(m)
    \/ \E m \in SMsgs : SQSHandlerFail(m)
    \/ \E m \in SMsgs : SQSRetryTimer(m)
    \/ \E m \in SMsgs : SQSTick(m)
    \/ Cardinality(flushes) < maxFlush /\ FlushTimer
    \/ \E b \in flushes : FlushOk(b)
    \/ \E b \in flushes : FlushFail(b)

Init == InitManager /\ InitSQSManager

\* The Manager under any sequence of start() and stop() calls.
Next ==
    \/ Start
    \/ Stop
    \/ Environment(RaceMsgs, RaceExtOut)

Spec == Init /\ [][Next]_vars

\* The Manager started once, and stopped at any time.
NextOnce ==
    \/ gen = 0 /\ Start
    \/ Stop
    \/ Environment(MaxMsgs, MaxExtOut)

SpecOnce == Init /\ [][NextOnce]_vars

\* Every transport call and handler invocation eventually returns and every
\* armed timeout eventually fires; nothing is assumed of the user's calls.
Fairness ==
    /\ \A l \in Loops :
        /\ WF_vars(RecvOk(l, <<>>) \/ \E e \in Errors : RecvFail(l, e))
        /\ WF_vars(DelayElapsed(l))
    /\ \A m \in Msgs :
        /\ WF_vars(ExtendOk(m) \/ ExtendFail(m))
        /\ WF_vars(HandlerOk(m) \/ HandlerFail(m))
        /\ WF_vars(DeleteOk(m) \/ DeleteFail(m))

FairSpec == Spec /\ Fairness

\* -------------------------------------------------- SQSManager: behaviours
\* One subscription to processMessage, with any concurrency and maxRetries.
NextSQS ==
    SQSEnvironment(SqsMsgs, Kinds, 1..MaxConcurrency, 0..MaxRetries, {1}, MaxFlushOut)

SpecSQS == Init /\ [][NextSQS]_vars

\* Every receive call, handler invocation and batch-delete call eventually
\* returns, a batch-delete call outstanding eventually succeeds, and every armed
\* timer eventually fires; nothing is assumed of the subscriber.
FairnessSQS ==
    /\ WF_vars(SQSRecvOk(<<>>) \/ SQSRecvFail)
    /\ \A m \in 1..SqsMsgs :
        /\ WF_vars(SQSHandlerOk(m) \/ SQSHandlerFail(m))
        /\ WF_vars(SQSRetryTimer(m))
    /\ WF_vars(Cardinality(flushes) < MaxFlushOut /\ FlushTimer)
    /\ WF_vars(\E b \in flushes : FlushOk(b))

FairSpecSQS == SpecSQS /\ FairnessSQS

\* One subscription with concurrency 1 and enough complete messages to fill
\* the delete buffer.
NextFlood ==
    SQSEnvironment(FloodMsgs, {"full"}, {1}, 0..1, {1}, FloodFlushOut)

SpecFlood == Init /\ [][NextFlood]_vars

\* One subscription and one message at a time, with any maxRetries and
\* baseDelay.
NextBackoff ==
    SQSEnvironment(SqsMsgs, {"full"}, {1}, 0..MaxRetries, 1..MaxBaseDelay, MaxFlushOut)

SpecBackoff == Init /\ [][NextBackoff]_vars

\* The Manager constructor applied to any options.
InitAnyOptions == InitConstruct /\ InitSQSManager

SpecConstruct == InitAnyOptions /\ [][Construct]_vars

\* -------------------------------------------------- both classes: behaviours
\* A program that drives one of the two classes: the Manager started once, or
\* one subscription to the SQSManager pipeline. The classes share no state.
NextEither ==
    \/ sub = "none" /\ NextOnce
    \/ gen = 0 /\ SQSEnvironment(MaxMsgs, Kinds, 1..MaxConcurrency, 0..1, {1},
                                  FloodFlushOut)

SpecEither == Init /\ [][NextEither]_vars

\* ------------------------------------------------------- Manager: claims

\* C1: every received batch of N messages starts exactly N processor
\* lifecycles, and no stop() call made while a receive cycle is in progress
\* resolves before that cycle and its processors have settled (also when an
\* earlier stop() is still pending).
C1_StopWaitsForDrain ==
    /\ \A l \in Loops :
          loopPc[l] = "batch" =>
            Cardinality({m \in Msgs : msgs[m].owner = l
                                        /\ msgs[m].pc \in {"handler", "delete", "settled"}})
              = batchN[l]
    /\ stopDone.left = {}

\* C2: the heartbeat of a message is stopped before its delete call is
\* issued: once the delete call has been issued, no heartbeat tick issues an
\* extend-lease call for the message.
C2_NoTickAfterDelete ==
    [][\A m \in Msgs :
          msgs[m].deleteCalls > 0 => msgs'[m].extOut <= msgs[m].extOut]_vars

\* C3: under every sequence of start() and stop() calls at most one receive
\* cycle is in progress at any time.
C3_CyclesSerialized == Cardinality(InCycle) <= 1

\* C4: a receive call failing with a Configuration error invokes the
\* configuration callback exactly once, neither invokes the temporary-error
\* callback nor starts the temporary-error delay, and no receive call is
\* issued afterwards (until start() is called again).
C4_ConfigurationFatal ==
    /\ lastRecv.fail = "Configuration" =>
          /\ lastRecv.cfg = 1
          /\ lastRecv.tmp = 0
          /\ lastRecv.delay = 0
          /\ loopPc[lastRecv.loop] # "delay"
          /\ cfgHalt
    /\ cfgHalt => ~running
    /\ ~recvAfterHalt

C4_Witness ==
    /\ cfgHalt
    /\ lastRecv.fail = "Configuration"
    /\ lastRecv.wasRunning

\* C5: after a receive call fails with a Configuration error, the stop() call
\* the engine makes eventually resolves and the loop task terminates, with the
\* shutdown promise resolved.
C5_ConfigurationStops ==
    \A l \in Loops :
        (loopPc[l] = "stopwait") ~> (loopPc[l] = "done" /\ resolved)

\* C6: a message with a lease token is passed to the handler exactly once, a
\* delete call is issued only after the handler succeeded, and a handler
\* failure invokes the processing-error callback exactly once and issues no
\* delete call.
C6_DeleteOnlyAfterSuccess ==
    \A r \in Records :
        /\ (r.handle /\ r.pc \in {"handler", "delete", "settled"}) => r.handlerCalls = 1
        /\ r.deleteCalls > 0 => (r.hres = "ok" /\ r.deleteCalls = 1)
        /\ r.hres = "fail" => (r.procErr = 1 /\ r.deleteCalls = 0)

C6_Witness ==
    /\ lastSettle.hres = "fail"
    /\ lastSettle.pc = "settled"
    /\ \E m \in Msgs : msgs[m].hres = "ok" /\ msgs[m].pc = "delete"

\* C7: a receive failure of any other category, seen while the engine is
\* running, invokes the temporary-error callback exactly once and not the
\* configuration callback, leaves the engine running, and the loop issues its
\* next receive call only after the timeoutTemporaryError delay has elapsed.
C7_TemporaryRetried ==
    /\ [](lastRecv.fail = "Temporary" /\ lastRecv.wasRunning =>
            /\ lastRecv.tmp = 1
            /\ lastRecv.cfg = 0
            /\ lastRecv.delay = 1
            /\ running
            /\ ~cfgHalt
            /\ loopPc[lastRecv.loop] = "delay")
    /\ [][\A l \in Loops :
            loopPc[l] = "delay" => (loopPc'[l] = "delay" \/ DelayElapsed(l))]_vars

C7_Witness ==
    /\ lastRecv.fail = "Temporary"
    /\ lastRecv.wasRunning
    /\ \E l \in Loops : loopPc[l] = "done"

\* C8: when an extend-lease call fails while the handler is running, the
\* visibility-error callback fires exactly once for the message, its heartbeat
\* stops, the handler is not aborted, and the delete is issued once the handler
\* succeeds, whatever the interleaving of ticks and extend-lease completions.
C8_VisibilityErrorOnce ==
    \A r \in Records :
        /\ r.visErr > 0 => (r.visErr = 1 /\ ~r.timer)
        /\ (r.visErr > 0 /\ r.pc = "handler") => r.hres = "pending"
        /\ r.hres = "ok" => r.deleteCalls = 1

\* A stop() call of the user is waiting for shutdown promise p.
StopPending(p) == \E r \in stopCalls : r.p = p

\* C18: if every receive call, handler invocation, extend-lease call and
\* delete call eventually returns, every stop() call eventually resolves,
\* under any interleaving of start() and stop() calls.
C18_StopEventuallyResolves ==
    \A p \in Loops : StopPending(p) ~> ~StopPending(p)

\* C19: the processing-error callback is invoked for a message only when its
\* handler invocation failed, whatever the outcome of the delete call.
C19_ProcessingErrorOnlyOnHandlerFailure ==
    \A r \in Records : r.procErr > 0 => r.hres = "fail"

\* C20: when heartbeatInterval is not configured and VisibilityTimeout is a
\* positive integer, the effective heartbeat interval is VisibilityTimeout / 2
\* (to the integer below), strictly greater than 0 and strictly less than
\* VisibilityTimeout.
C20_HeartbeatWithinLease ==
    (/\ heartbeatInterval # Undefined
     /\ options.heartbeatInterval = Undefined
     /\ options.VisibilityTimeout >= 1) =>
        /\ 2 * heartbeatInterval <= options.VisibilityTimeout
        /\ options.VisibilityTimeout < 2 * heartbeatInterval + 2
        /\ heartbeatInterval > 0
        /\ heartbeatInterval < options.VisibilityTimeout

\* ---------------------------------------------------- SQSManager: claims
\* C9: the delete buffer never holds more than 10 entries, under any
\* interleaving of completing messages, size-triggered flushes, timer flushes
\* and failed flushes that re-insert their batch.
C9_DeleteBufferBounded == Len(deleteBuffer) <= DeleteBatchMax

\* C10: a message whose handler fails on every attempt has its handler invoked
\* maxRetries + 1 times, retrying stops at the first success, and after
\* maxRetries retries the message is handed to the delete batcher exactly once.
C10_HandlerRetried ==
    /\ (ev.kind = "terminal" /\ ev.outcome = "exhausted") =>
          /\ ev.handlerCalls = maxRetries + 1
          /\ ev.retries = maxRetries
          /\ ev.handed = 1
    /\ (ev.kind = "terminal" /\ ev.outcome = "ok") =>
          /\ ev.handlerCalls = ev.retries + 1
          /\ ev.handed = 1

\* C11: with attempts numbered from 0, the delay waited before attempt n + 1
\* is at least 0 and below baseDelay * 2^n, for every jitter outcome.
C11_DelayBelowBackoff ==
    ev.kind = "retry" =>
        /\ ev.delay >= 0
        /\ ev.delay < baseDelay * 2^(ev.retries - 1)

\* Message m waits in the delete buffer; message m has been included in a
\* batch-delete call sent to the transport.
InBuffer(m) == \E i \in 1..Len(deleteBuffer) : deleteBuffer[i] = m
Sent(m) == m \in deleted \/ \E b \in flushes : \E i \in 1..Len(b) : b[i] = m

\* C12: every message that reached a terminal outcome and was handed to the
\* batcher is eventually included in a batch-delete call, the message that
\* exhausted its retries included, as long as the subscriber does not
\* unsubscribe.
C12_TerminalEventuallyFlushed ==
    \A m \in 1..SqsMsgs : InBuffer(m) ~> (Sent(m) \/ sub = "unsub")

\* C13: a handler failure that exhausts its retries does not halt the engine:
\* the step that reaches the exhausted outcome leaves the subscription open,
\* the receive loop listening and the periodic flush armed.
C13_ExhaustionRecovered ==
    [][(ev'.kind = "terminal" /\ ev'.outcome = "exhausted")
          => UNCHANGED <<sub, isListening, deleteInterval>>]_vars

\* The stream has been torn down, no inner observable is active and no
\* batch-delete call is outstanding.
Settled == sub \in {"unsub", "error"} /\ Active(smsgs) = 0 /\ flushes = {}

\* C14: unless a batch-delete call fails, the delete buffer is empty whenever
\* the stream has been torn down and every in-flight processor and flush has
\* settled.
C14_ShutdownFlushesAll ==
    <>(ev.kind = "flushfail") \/ [](Settled => deleteBuffer = <<>>)

\* The places that hold an entry of message m: positions of a sequence,
\* outstanding batches, and the successfully deleted set.
Count(q, m) == Cardinality({i \in 1..Len(q) : q[i] = m})

RECURSIVE CountIn(_, _)
CountIn(bs, m) ==
    IF bs = {}
    THEN 0
    ELSE LET b == CHOOSE x \in bs : TRUE
         IN  Count(b, m) + CountIn(bs \ {b}, m)

Places(buf, out, del, m) ==
    Count(buf, m) + CountIn(out, m) + (IF m \in del THEN 1 ELSE 0)

\* C16: a failed batch-delete call puts exactly its batch back at the front of
\* the buffer in the original order, and every entry handed to the batcher is
\* at all times in exactly one of the buffer, one outstanding batch, or the
\* successfully deleted entries: none is lost, duplicated or deleted twice.
C16_EntriesConserved ==
    /\ [](\A m \in SMsgs : Places(deleteBuffer, flushes, deleted, m) <= 1)
    /\ [][/\ \A m \in SMsgs :
               Places(deleteBuffer', flushes', deleted', m)
                 = Places(deleteBuffer, flushes, deleted, m)
                   + (IF /\ ev'.kind = "terminal"
                         /\ ev'.m = m
                         /\ smsgs[m].kind = "full"
                      THEN 1 ELSE 0)
           /\ ev'.kind = "flushfail" =>
                 \E b \in flushes :
                    /\ flushes' = flushes \ {b}
                    /\ deleteBuffer' = b \o deleteBuffer
           /\ deleted \subseteq deleted']_vars

\* A batch-delete call has just failed and put its batch back while the stream
\* is still listening, another call is outstanding and the buffer holds a full
\* batch again. The flush timer starts no call while one is outstanding
\* (FloodFlushOut) and the teardown flush has not run, so one of the two calls
\* was started by the size test of addToDeleteBatch, line 83.
C16_Witness ==
    /\ ev.kind = "flushfail"
    /\ isListening
    /\ flushes # {}
    /\ Len(deleteBuffer) >= DeleteBatchMax

\* ------------------------------------------------------ both classes: claims
\* A message received by the Manager without a ReceiptHandle has no handler
\* invocation, no heartbeat timer, no extend-lease call and no delete call.
ManagerSkipsNoHandle ==
    \A m \in Msgs :
        (msgs[m].pc # "none" /\ ~msgs[m].handle) =>
            /\ msgs[m].handlerCalls = 0
            /\ ~msgs[m].timer
            /\ msgs[m].extOut = 0
            /\ msgs[m].deleteCalls = 0

\* The same for a message received by the SQSManager pipeline: no handler
\* invocation, no extender, no entry handed to a batch-delete call.
SQSSkipsNoHandle ==
    \A m \in SMsgs :
        smsgs[m].kind = "nohandle" =>
            /\ smsgs[m].handlerCalls = 0
            /\ ~smsgs[m].timer
            /\ ~InBuffer(m)
            /\ ~Sent(m)

\* C15: in both classes a received message without a lease token is not
\* dispatched: the handler is never invoked for it, no heartbeat timer is
\* started for it, and no delete or batch-delete entry is issued for it.
C15_NoHandleNotDispatched == ManagerSkipsNoHandle /\ SQSSkipsNoHandle

\* No step issues an extend-lease call for a Manager message whose processor
\* has settled, and a tick of the pipeline is for a message still in flight.
NoTickAfterSettled ==
    /\ \A m \in Msgs :
          msgs[m].pc \in {"settled", "gone"} => msgs'[m].extOut <= msgs[m].extOut
    /\ (ev'.kind = "tick") => (smsgs[ev'.m].pc \in {"handler", "retry"})

\* No timer is armed for a message that is not in flight.
NoTimerAfterSettled ==
    /\ \A r \in Records : r.pc \in {"settled", "gone"} => ~r.timer
    /\ \A m \in SMsgs : smsgs[m].pc \notin {"handler", "retry"} => ~smsgs[m].timer

\* C17: a message has at most one heartbeat timer, and it is cancelled when
\* the message reaches its terminal outcome: once the processor has settled,
\* the timer is not armed, no tick fires and no extend-lease call is issued.
C17_HeartbeatEndsWithMessage ==
    []NoTimerAfterSettled /\ [][NoTickAfterSettled]_vars

C17_Witness ==
    \E m \in Msgs :
        /\ msgs[m].pc = "settled"
        /\ msgs[m].handle
        /\ msgs[m].extOut > 0

====
